---- MODULE Spec2Model ----
(***************************************************************************)
(* A model of keybinder.py: the label normalizer, the QAction enumerator,  *)
(* the action mapper, the rebinding pass KeybindingManager.apply() and the *)
(* plugin lifecycle (KeybinderPlugin.init/run/term, KeyHooker).            *)
(*                                                                         *)
(* Strings whose characters matter (labels, display texts, setting values) *)
(* are sequences of one-character strings; shortcut strings and action     *)
(* names are opaque and stay TLA+ strings.                                 *)
(***************************************************************************)
EXTENDS Integers, Sequences, FiniteSets, TLC

VARIABLES
    text_in,          \* argument of _replace_tilde_with_ampersand
    text_out,         \* its return value
    qobjects,         \* the Qt object tree: object id -> [parent, isAction, text]
    hasApp,           \* QApplication.instance() is not None
    labels,           \* the host registry: action name -> label
    fault,            \* the collaborator call that raises, if any
    setting,          \* what ida_settings holds for "enabled"
    updated,          \* KeybinderPlugin.__updated (RESTART_REQUIRED at construction)
    shortcut,         \* object id -> the QAction's shortcut
    _applied,         \* KeybindingManager._applied
    _actions,         \* KeybindingManager._actions: action name -> object id
    _ui_hook,         \* KeybinderPlugin._ui_hook: 0 is None, k the k-th KeyHooker
    hooks,            \* the KeyHooker objects currently hooked (by creation number)
    created,          \* how many KeyHooker objects init() has constructed
    hookAtApply,      \* _ui_hook when the policy loop last ran
    label_to_action,  \* the table the last _enumerate_qactions returned
    popped,           \* the objects the last enumeration popped, in order
    calls,            \* every setShortcut call made so far: <<object, shortcut>>
    warnings,         \* the names the last pass warned 'not found' about
    passes,           \* how many times the policy loop has been entered
    outcome           \* how the last call ended: none, returned, raised, skipped (already
                      \* applied), not_applying / run_skipped (disabled via settings)

vars == <<text_in, text_out, qobjects, hasApp, labels, fault, setting, updated,
          shortcut, _applied, _actions, _ui_hook, hooks, created,
          hookAtApply, label_to_action,
          popped, calls, warnings, passes, outcome>>

----------------------------------------------------------------------------
(* Bounds *)

MaxLen == 4           \* characters of a string given to the normalizer
MaxObjects == 3       \* objects of a tree given to the enumerator alone
MaxPassObjects == 2   \* objects of a tree given to one apply() pass
MaxFaultObjects == 1  \* objects of a tree when a collaborator call may raise
MaxLifeObjects == 1   \* objects of a tree in the plugin's lifecycle
MaxHooks == 2         \* KeyHooker objects one plugin instance constructs

----------------------------------------------------------------------------
(* Characters and strings *)

None == <<"None">>
NL == "\n"
Chars == {"~", "&", "E", NL}

RECURSIVE StringsUpTo(_)
StringsUpTo(n) ==
    IF n = 0 THEN {<<>>}
    ELSE LET shorter == StringsUpTo(n - 1)
         IN  shorter \cup {Append(s, c) : s \in {t \in shorter : Len(t) = n - 1}, c \in Chars}

----------------------------------------------------------------------------
(* KeybindingManager._TILDE_PATTERN_RGX = re.compile(r"~(.*?)~")           *)
(*                                                                         *)
(* MatchEnd(s, i): the regex tried at position i, where s[i] = "~".  The   *)
(* lazy group takes one character at a time and stops at the first "~";    *)
(* "." matches every character except a line feed, so a line feed met      *)
(* before the closing "~" makes the attempt at i fail.  0 means no match.  *)

RECURSIVE LazyScan(_, _)
LazyScan(s, j) ==
    IF j > Len(s) THEN 0
    ELSE IF s[j] = "~" THEN j
    ELSE IF s[j] = NL THEN 0
    ELSE LazyScan(s, j + 1)

RECURSIVE GreedyScan(_, _, _)
GreedyScan(s, j, best) ==
    IF j > Len(s) THEN best
    ELSE IF s[j] = NL THEN best
    ELSE GreedyScan(s, j + 1, IF s[j] = "~" THEN j ELSE best)

MatchEndGreedy(s, i) == GreedyScan(s, i + 1, 0)

MatchEnd(s, i) == LazyScan(s, i + 1)

(* re.sub: scan left to right; a match at i is replaced by "&" + group(1)  *)
(* and the scan resumes after it; otherwise s[i] is copied.                *)
RECURSIVE Sub(_, _)
Sub(s, i) ==
    IF i > Len(s) THEN <<>>
    ELSE IF s[i] = "~" /\ MatchEnd(s, i) # 0
         THEN <<"&">> \o SubSeq(s, i + 1, MatchEnd(s, i) - 1) \o Sub(s, MatchEnd(s, i) + 1)
         ELSE <<s[i]>> \o Sub(s, i + 1)

(* _replace_tilde_with_ampersand(text): sub(..., text or "") *)
_replace_tilde_with_ampersand(text) ==
    Sub(IF text = None THEN <<>> ELSE text, 1)

----------------------------------------------------------------------------
(* The Qt object tree.  Object 0 is QApplication.instance(); objects       *)
(* 1..n are QObjects, each with a parent created before it (or none: a     *)
(* QObject outside the application's tree).  Children are kept in creation *)
(* order, as QObject::children() keeps them.                               *)

Root == 0
NoParent == -1
EditText == <<"&", "E", "d", "i", "t">>
SaveText == <<"&", "S", "a", "v", "e">>
ActionTexts == {EditText, SaveText}

QWidgetObj(p) == [parent |-> p, isAction |-> FALSE, text |-> <<>>]
QActionObj(p, t) == [parent |-> p, isAction |-> TRUE, text |-> t]

RECURSIVE Trees(_)
Trees(n) ==
    IF n = 0 THEN {<<>>}
    ELSE {Append(t, o) : t \in Trees(n - 1),
                         o \in {QWidgetObj(p) : p \in NoParent .. (n - 1)}
                               \cup {QActionObj(p, x) : p \in NoParent .. (n - 1), x \in ActionTexts}}

(* Faults: the one collaborator call that raises in this run, if any. *)
NoFault == [kind |-> "none", obj |-> NoParent, name |-> ""]
Raises(f, kind, obj, name) == f.kind = kind /\ f.obj = obj /\ f.name = name

(* isinstance(widget, QAction): line 250 *)
IsQAction(objs, w) == w # Root /\ objs[w].isAction

(* widget.findChildren(QAction): every QAction below w, found as Qt finds  *)
(* them: each child in order, the child itself first, then the child's own *)
(* subtree (Qt::FindChildrenRecursively, the default option).              *)
RECURSIVE FindFrom(_, _, _)
FindFrom(objs, w, i) ==
    IF i > Len(objs) THEN <<>>
    ELSE (IF objs[i].parent = w
          THEN (IF objs[i].isAction THEN <<i>> ELSE <<>>) \o FindFrom(objs, i, i + 1)
          ELSE <<>>)
         \o FindFrom(objs, w, i + 1)

FindDirectChildrenOnly(objs, w) ==
    SelectSeq([i \in 1 .. Len(objs) |-> i],
              LAMBDA i : objs[i].parent = w /\ objs[i].isAction)

findChildren(objs, w) == FindFrom(objs, w, w + 1)

(* label_to_action[widget.text()] = widget: line 253 *)
KeepFirst(table, t, w) == IF t \in DOMAIN table THEN table ELSE (t :> w) @@ table

Store(table, t, w) == (t :> w) @@ table

EmptyTable == [t \in {} |-> Root]

(* The loop of _enumerate_qactions, lines 240-253: pop the head, enqueue   *)
(* its findChildren (an exception there is swallowed), and record it if it *)
(* is a QAction.  An exception of widget.text() is not caught.             *)
RECURSIVE EnumLoop(_, _, _, _, _)
EnumLoop(objs, f, widgets, table, seen) ==
    IF widgets = <<>> THEN [table |-> table, popped |-> seen, raised |-> FALSE]
    ELSE LET widget == Head(widgets)
             found  == IF Raises(f, "findChildren", widget, "") THEN <<>>
                       ELSE findChildren(objs, widget)
             rest   == Tail(widgets) \o found
         IN  IF ~IsQAction(objs, widget)
             THEN EnumLoop(objs, f, rest, table, Append(seen, widget))
             ELSE IF Raises(f, "text", widget, "")
             THEN [table |-> table, popped |-> Append(seen, widget), raised |-> TRUE]
             ELSE EnumLoop(objs, f, rest, Store(table, objs[widget].text, widget),
                           Append(seen, widget))

(* _enumerate_qactions, lines 225-256.  QApplication and QAction are bound *)
(* by the module's imports (lines 73-87), so the test of line 229 is never *)
(* true in a loaded module; line 234 is the case of no application.        *)
_enumerate_qactions(objs, app, f) ==
    IF ~app THEN [table |-> EmptyTable, popped |-> <<>>, raised |-> FALSE]
    ELSE EnumLoop(objs, f, <<Root>>, EmptyTable, <<>>)

----------------------------------------------------------------------------
(* The host's action registry and the binding policy.                      *)

(* KeybindingManager._bindings, lines 199-212: the first three entries of  *)
(* the table, in its order.                                                *)
_bindings ==
    << [name |-> "ChooserEdit", shortcut |-> "Meta+E, C"],
       [name |-> "TilEditType", shortcut |-> "Meta+E, T"],
       [name |-> "EditSegment", shortcut |-> "Meta+E, S"] >>

PolicyNames == {_bindings[k].name : k \in 1 .. Len(_bindings)}

(* The names the host may have registered, in the order in which           *)
(* idaapi.get_registered_actions() lists them; "Quit" is an action of the  *)
(* host that the policy does not name.                                     *)
NameOrder == <<"ChooserEdit", "EditSegment", "Quit", "TilEditType">>

EditLabel == <<"~", "E", "~", "d", "i", "t">>
SaveLabel == <<"~", "S", "~", "a", "v", "e">>
LabelChoices == {<<>>, EditLabel, SaveLabel}

(* A registry: the registered names, each with its label. *)
Registries(names) == UNION {[R -> LabelChoices] : R \in SUBSET names}
RegNames == {NameOrder[k] : k \in 1 .. Len(NameOrder)}

(* idaapi.get_registered_actions(), line 279 *)
get_registered_actions(lab) == SelectSeq(NameOrder, LAMBDA n : n \in DOMAIN lab)

EmptyMap == [n \in {} |-> Root]

(* label_to_action.get(label) without the normalizer's call. *)
LookupRaw(table, label) ==
    IF label \in DOMAIN table THEN table[label] ELSE Root

(* lines 291-292: qt_label = _replace_tilde_with_ampersand(label);         *)
(* qact = label_to_action.get(qt_label).  Root (0) stands for None.        *)
Lookup(table, label) ==
    IF _replace_tilde_with_ampersand(label) \in DOMAIN table
    THEN table[_replace_tilde_with_ampersand(label)]
    ELSE Root

(* The loop of _build_action_map, lines 279-300. *)
RECURSIVE MapLoop(_, _, _, _, _)
MapLoop(names, table, lab, f, actions) ==
    IF names = <<>> THEN [actions |-> actions, raised |-> FALSE]
    ELSE LET action_name == Head(names)
         IN  IF Raises(f, "get_action_label", NoParent, action_name)
             THEN [actions |-> actions, raised |-> TRUE]
             ELSE IF lab[action_name] = <<>>
             THEN MapLoop(Tail(names), table, lab, f, actions)
             ELSE IF Lookup(table, lab[action_name]) = Root
             THEN MapLoop(Tail(names), table, lab, f, actions)
             ELSE MapLoop(Tail(names), table, lab, f,
                          (action_name :> Lookup(table, lab[action_name])) @@ actions)

(* _build_action_map, lines 268-304: self._actions is updated in place, so *)
(* what was mapped before an exception stays mapped.                       *)
_build_action_map(objs, app, lab, f, actions) ==
    LET e == _enumerate_qactions(objs, app, f)
    IN  IF e.raised
        THEN [actions |-> actions, raised |-> TRUE, table |-> e.table, popped |-> e.popped]
        ELSE IF DOMAIN e.table = {}
        THEN [actions |-> actions, raised |-> FALSE, table |-> e.table, popped |-> e.popped]
        ELSE IF Raises(f, "get_registered_actions", NoParent, "")
        THEN [actions |-> actions, raised |-> TRUE, table |-> e.table, popped |-> e.popped]
        ELSE LET m == MapLoop(get_registered_actions(lab), e.table, lab, f, actions)
             IN  [actions |-> m.actions, raised |-> m.raised,
                  table |-> e.table, popped |-> e.popped]

(* The policy loop with a miss ending the loop (break for continue). *)
RECURSIVE PolicyLoopStopsAtMiss(_, _, _, _, _, _)
PolicyLoopStopsAtMiss(policy, actions, f, sc, made, warned) ==
    IF policy = <<>>
    THEN [shortcut |-> sc, calls |-> made, warnings |-> warned, raised |-> FALSE]
    ELSE LET e == Head(policy)
         IN  IF e.name \notin DOMAIN actions
             THEN [shortcut |-> sc, calls |-> made,
                   warnings |-> Append(warned, e.name), raised |-> FALSE]
             ELSE PolicyLoopStopsAtMiss(Tail(policy), actions, f,
                      [sc EXCEPT ![actions[e.name]] = e.shortcut],
                      Append(made, <<actions[e.name], e.shortcut>>), warned)

(* The policy loop with a miss skipped without its warning. *)
RECURSIVE PolicyLoopSilentMiss(_, _, _, _, _, _)
PolicyLoopSilentMiss(policy, actions, f, sc, made, warned) ==
    IF policy = <<>>
    THEN [shortcut |-> sc, calls |-> made, warnings |-> warned, raised |-> FALSE]
    ELSE LET e == Head(policy)
         IN  IF e.name \notin DOMAIN actions
             THEN PolicyLoopSilentMiss(Tail(policy), actions, f, sc, made, warned)
             ELSE PolicyLoopSilentMiss(Tail(policy), actions, f,
                      [sc EXCEPT ![actions[e.name]] = e.shortcut],
                      Append(made, <<actions[e.name], e.shortcut>>), warned)

(* The policy loop of apply(), lines 326-335.  A setShortcut that raises   *)
(* was called and leaves the object's shortcut as it was.                  *)
RECURSIVE PolicyLoop(_, _, _, _, _, _)
PolicyLoop(policy, actions, f, sc, made, warned) ==
    IF policy = <<>>
    THEN [shortcut |-> sc, calls |-> made, warnings |-> warned, raised |-> FALSE]
    ELSE LET e == Head(policy)
         IN  IF e.name \notin DOMAIN actions
             THEN PolicyLoop(Tail(policy), actions, f, sc, made, Append(warned, e.name))
             ELSE IF Raises(f, "setShortcut", actions[e.name], "")
             THEN [shortcut |-> sc, calls |-> Append(made, <<actions[e.name], e.shortcut>>),
                   warnings |-> warned, raised |-> TRUE]
             ELSE PolicyLoop(Tail(policy), actions, f,
                      [sc EXCEPT ![actions[e.name]] = e.shortcut],
                      Append(made, <<actions[e.name], e.shortcut>>), warned)

----------------------------------------------------------------------------
(* SettingsAdapter                                                         *)

BoolSetting(b) == [type |-> "bool", b |-> b, s |-> <<>>]
StrSetting(s) == [type |-> "str", b |-> FALSE, s |-> s]
MissingSetting == [type |-> "missing", b |-> FALSE, s |-> <<>>]
IntSetting == [type |-> "int", b |-> FALSE, s |-> <<>>]
(* ida_settings could not be imported (lines 11-14): settings_mod is None *)
NoSettingsModule == [type |-> "nomodule", b |-> FALSE, s |-> <<>>]

SettingValues ==
    {BoolSetting(TRUE), BoolSetting(FALSE), StrSetting(<<"O", "n">>),
     StrSetting(<<"o", "f", "f">>), MissingSetting, IntSetting}

(* str.lower() on the letters the setting values use *)
LowerChar(c) ==
    CASE c = "O" -> "o"
      [] c = "N" -> "n"
      [] c = "F" -> "f"
      [] OTHER   -> c
Lower(s) == [i \in 1 .. Len(s) |-> LowerChar(s[i])]

TruthyStrings ==
    {<<"1">>, <<"t", "r", "u", "e">>, <<"y", "e", "s">>, <<"o", "n">>}

(* _get_bool, lines 166-180 *)
_get_bool(value, default) ==
    CASE value.type = "nomodule" -> default
      [] value.type = "missing"  -> default
      [] value.type = "bool"     -> value.b
      [] value.type = "str"      -> Lower(value.s) \in TruthyStrings
      [] OTHER                   -> default

(* plugin_enabled, lines 182-185; default_enabled=True, line 425 *)
plugin_enabled == _get_bool(setting, TRUE)

----------------------------------------------------------------------------
(* KeybindingManager.apply                                                 *)

envVars == <<qobjects, hasApp, labels, fault, updated>>
normVars == <<text_in, text_out>>
hookVars == <<_ui_hook, hooks, created>>
passVars == <<shortcut, _applied, _actions, label_to_action, popped, calls,
              warnings, passes, hookAtApply>>

(* apply() past its guard, lines 315-335 *)
RunPass ==
    LET b == _build_action_map(qobjects, hasApp, labels, fault, _actions)
        l == PolicyLoop(_bindings, b.actions, fault, shortcut, <<>>, <<>>)
    IN  /\ _applied' = TRUE
        /\ _actions' = b.actions
        /\ label_to_action' = b.table
        /\ popped' = b.popped
        /\ IF b.raised
           THEN /\ outcome' = "raised"
                /\ UNCHANGED <<shortcut, calls, warnings, passes, hookAtApply>>
           ELSE /\ shortcut' = l.shortcut
                /\ calls' = calls \o l.calls
                /\ warnings' = l.warnings
                /\ passes' = passes + 1
                /\ hookAtApply' = _ui_hook
                /\ outcome' = IF l.raised THEN "raised" ELSE "returned"

applyWithoutGuard == RunPass

(* apply(), lines 306-335 *)
apply ==
    IF _applied
    THEN outcome' = "skipped" /\ UNCHANGED passVars
    ELSE RunPass

----------------------------------------------------------------------------
(* KeyHooker and KeybinderPlugin                                           *)

ready_to_run_ignoring_setting ==
    /\ hooks # {}
    /\ apply
    /\ UNCHANGED <<envVars, normVars, hookVars, setting>>

(* KeyHooker.ready_to_run, lines 377-386: delivered to a hooked KeyHooker *)
ready_to_run ==
    /\ hooks # {}
    /\ IF plugin_enabled
       THEN apply
       ELSE outcome' = "not_applying" /\ UNCHANGED passVars
    /\ UNCHANGED <<envVars, normVars, hookVars, setting>>

(* KeybinderPlugin.init, lines 431-446.  The plugin object exists only if  *)
(* SUPPORTED_ENVIRONMENT held in PLUGIN_ENTRY (line 468).                  *)
init ==
    /\ updated \/ ~plugin_enabled \/ created < MaxHooks
    /\ IF updated \/ ~plugin_enabled
       THEN UNCHANGED hookVars
       ELSE /\ created' = created + 1
            /\ _ui_hook' = created + 1
            /\ hooks' = hooks \cup {created + 1}
    /\ UNCHANGED <<envVars, normVars, passVars, setting, outcome>>

(* KeybinderPlugin.run, lines 448-458 *)
run ==
    /\ IF plugin_enabled
       THEN apply
       ELSE outcome' = "run_skipped" /\ UNCHANGED passVars
    /\ UNCHANGED <<envVars, normVars, hookVars, setting>>

term_resetting_flag ==
    /\ IF _ui_hook # 0
       THEN hooks' = hooks \ {_ui_hook} /\ _ui_hook' = 0
       ELSE UNCHANGED <<hooks, _ui_hook>>
    /\ _applied' = FALSE
    /\ UNCHANGED <<envVars, normVars, created, setting, outcome, shortcut, _actions,
                   label_to_action, popped, calls, warnings, passes, hookAtApply>>

(* KeybinderPlugin.term, lines 460-464 *)
term ==
    /\ IF _ui_hook # 0
       THEN hooks' = hooks \ {_ui_hook} /\ _ui_hook' = 0
       ELSE UNCHANGED <<hooks, _ui_hook>>
    /\ UNCHANGED <<envVars, normVars, passVars, created, setting, outcome>>

(* The user changes the plugin's "enabled" setting in the host. *)
ChangeSetting ==
    /\ setting # NoSettingsModule
    /\ \E v \in SettingValues \ {setting} : setting' = v
    /\ UNCHANGED <<envVars, normVars, hookVars, passVars, outcome>>

----------------------------------------------------------------------------
(* Specifications                                                          *)

InitManager ==
    /\ shortcut = [i \in 1 .. Len(qobjects) |-> ""]
    /\ _applied = FALSE
    /\ _actions = EmptyMap
    /\ label_to_action = EmptyTable
    /\ popped = <<>>
    /\ calls = <<>>
    /\ warnings = <<>>
    /\ passes = 0
    /\ hookAtApply = 0
    /\ outcome = "none"

InitPlugin ==
    /\ _ui_hook = 0
    /\ hooks = {}
    /\ created = 0

(* The object trees of a run: no application at all, or a tree of n objects *)
InitTree(trees) ==
    \/ hasApp = FALSE /\ qobjects = <<>>
    \/ hasApp = TRUE /\ qobjects \in trees

(* The plugin's life in the host: any sequence of init(), term(), UI-ready *)
(* events and run() calls, with the setting changing in between.           *)
FlatTrees(n) == {t \in Trees(n) : \A i \in 1 .. n : t[i].parent = Root}

Init ==
    /\ text_in = <<>> /\ text_out = <<>>
    /\ InitTree(FlatTrees(MaxLifeObjects))
    /\ labels \in [PolicyNames -> LabelChoices]
    /\ fault = NoFault
    /\ setting \in SettingValues \cup {NoSettingsModule}
    /\ updated \in BOOLEAN
    /\ InitManager /\ InitPlugin

Next == init \/ term \/ ready_to_run \/ run \/ ChangeSetting

Spec == Init /\ [][Next]_vars

(* One manager and calls of apply() on it. *)
FaultsOf(objs) ==
    {NoFault, [kind |-> "get_registered_actions", obj |-> NoParent, name |-> ""]}
    \cup {[kind |-> "findChildren", obj |-> o, name |-> ""] : o \in 0 .. Len(objs)}
    \cup {[kind |-> k, obj |-> o, name |-> ""] : k \in {"text", "setShortcut"},
                                                 o \in 1 .. Len(objs)}
    \cup {[kind |-> "get_action_label", obj |-> NoParent, name |-> n] : n \in RegNames}

InitPassEnv ==
    /\ text_in = <<>> /\ text_out = <<>>
    /\ setting = BoolSetting(TRUE)
    /\ updated = FALSE
    /\ InitManager /\ InitPlugin

ApplyCall == apply /\ UNCHANGED <<envVars, normVars, hookVars, setting>>

(* Every collaborator call succeeds. *)
InitPass ==
    /\ InitTree(Trees(MaxPassObjects))
    /\ labels \in Registries(RegNames)
    /\ fault = NoFault
    /\ InitPassEnv
SpecPass == InitPass /\ [][ApplyCall]_vars

(* One collaborator call may raise. *)
InitPassFault ==
    /\ InitTree(Trees(MaxFaultObjects))
    /\ labels \in Registries(PolicyNames)
    /\ fault \in FaultsOf(qobjects)
    /\ InitPassEnv
SpecPassFault == InitPassFault /\ [][ApplyCall]_vars

(* The enumerator alone, on every tree. *)
InitEnum ==
    /\ text_in = <<>> /\ text_out = <<>>
    /\ InitTree(Trees(MaxObjects))
    /\ labels = EmptyMap
    /\ fault = NoFault
    /\ setting = BoolSetting(TRUE)
    /\ updated = FALSE
    /\ InitManager /\ InitPlugin

EnumerateCall ==
    LET e == _enumerate_qactions(qobjects, hasApp, fault)
    IN  /\ label_to_action' = e.table
        /\ popped' = e.popped
        /\ outcome' = IF e.raised THEN "raised" ELSE "returned"
        /\ UNCHANGED <<envVars, normVars, hookVars, setting, shortcut, _applied,
                       _actions, calls, warnings, passes, hookAtApply>>

SpecEnum == InitEnum /\ [][EnumerateCall]_vars

(* The normalizer alone, on every string up to MaxLen and on None. *)
InitNorm ==
    /\ text_in \in StringsUpTo(MaxLen) \cup {None}
    /\ text_out = <<>>
    /\ hasApp = FALSE /\ qobjects = <<>>
    /\ labels = EmptyMap
    /\ fault = NoFault
    /\ setting = BoolSetting(TRUE)
    /\ updated = FALSE
    /\ InitManager /\ InitPlugin

NormalizeCall ==
    /\ text_out' = _replace_tilde_with_ampersand(text_in)
    /\ outcome' = "returned"
    /\ UNCHANGED <<text_in, envVars, hookVars, passVars, setting>>

SpecNorm == InitNorm /\ [][NormalizeCall]_vars

----------------------------------------------------------------------------
(* Helpers of the properties                                               *)

RECURSIVE Flatten(_)
Flatten(pieces) ==
    IF pieces = <<>> THEN <<>> ELSE Head(pieces) \o Flatten(Tail(pieces))

TildesIn(s, from, to) == Cardinality({j \in from .. to : s[j] = "~"})
HasLineFeed(s, from, to) == \E j \in from .. to : s[j] = NL

(* Pairing the tildes of the whole string: the 1st with the 2nd, the 3rd   *)
(* with the 4th, ...; an opening tilde becomes "&", its closing tilde      *)
(* disappears, a last tilde without partner stays.                         *)
PieceByRank(s, i) ==
    IF s[i] # "~" THEN <<s[i]>>
    ELSE IF TildesIn(s, 1, i) % 2 = 0 THEN <<>>
    ELSE IF TildesIn(s, i + 1, Len(s)) > 0 THEN <<"&">>
    ELSE <<"~">>
ExpectedByRank(s) == Flatten([i \in 1 .. Len(s) |-> PieceByRank(s, i)])

(* The same pairing done line by line: a tilde pairs only with a tilde of  *)
(* its own line.                                                           *)
LineStart(s, i) ==
    IF HasLineFeed(s, 1, i - 1)
    THEN 1 + CHOOSE j \in 1 .. i - 1 : s[j] = NL /\ ~HasLineFeed(s, j + 1, i - 1)
    ELSE 1
LineEnd(s, i) ==
    IF HasLineFeed(s, i + 1, Len(s))
    THEN (CHOOSE j \in i + 1 .. Len(s) : s[j] = NL /\ ~HasLineFeed(s, i + 1, j - 1)) - 1
    ELSE Len(s)
PieceByLine(s, i) ==
    IF s[i] # "~" THEN <<s[i]>>
    ELSE IF TildesIn(s, LineStart(s, i), i) % 2 = 0 THEN <<>>
    ELSE IF TildesIn(s, i + 1, LineEnd(s, i)) > 0 THEN <<"&">>
    ELSE <<"~">>
ExpectedByLine(s) == Flatten([i \in 1 .. Len(s) |-> PieceByLine(s, i)])

(* The QActions below the application root, by the parent links. *)
RECURSIVE Under(_, _)
Under(objs, i) ==
    \/ objs[i].parent = Root
    \/ objs[i].parent >= 1 /\ Under(objs, objs[i].parent)
ActionsUnderRoot ==
    {i \in 1 .. Len(qobjects) : qobjects[i].isAction /\ Under(qobjects, i)}

LastPopped(t) ==
    LET at == {k \in 1 .. Len(popped) :
                 popped[k] # Root /\ qobjects[popped[k]].text = t}
    IN  popped[CHOOSE k \in at : \A j \in at : j <= k]

(* What the normal form of each label of the model is, written out. *)
NormalForm == (EditLabel :> EditText) @@ (SaveLabel :> SaveText)

Present(e) == e.name \in DOMAIN _actions
PolicyNamesOf(policy) == [k \in 1 .. Len(policy) |-> policy[k].name]

Orders(n) == {p \in [1 .. n -> 1 .. n] : \A i, j \in 1 .. n : p[i] = p[j] => i = j}
Permuted(p) == [k \in 1 .. Len(_bindings) |-> _bindings[p[k]]]
(* The shortcuts a pass over `policy` leaves, from the state before the pass. *)
ShortcutsAfter(policy) ==
    PolicyLoop(policy, _actions, fault, [i \in 1 .. Len(qobjects) |-> ""], <<>>, <<>>).shortcut
ResolveApart ==
    \A a, b \in PolicyNames \cap DOMAIN _actions : _actions[a] = _actions[b] => a = b

----------------------------------------------------------------------------
(* Properties                                                              *)

C2_MissesAreIsolated ==
    outcome = "returned" =>
        /\ calls = [k \in 1 .. Len(SelectSeq(_bindings, Present)) |->
                      <<_actions[SelectSeq(_bindings, Present)[k].name],
                        SelectSeq(_bindings, Present)[k].shortcut>>]
        /\ warnings = PolicyNamesOf(SelectSeq(_bindings, LAMBDA e : ~Present(e)))
        /\ \A o \in 1 .. Len(qobjects) :
              (\A k \in 1 .. Len(calls) : calls[k][1] # o) => shortcut[o] = ""

(* C2's case: the first entry misses, the two after it are applied. *)
C2_Witness ==
    /\ outcome = "returned"
    /\ "ChooserEdit" \notin DOMAIN _actions
    /\ Len(calls) = 2
    /\ warnings = <<"ChooserEdit">>

(* C3: a handler that reads the setting as disabled (ready_to_run, run,    *)
(* init) sets no shortcut and leaves the applied flag as it was.           *)
C3_DisabledMutatesNothing ==
    [][(~plugin_enabled /\ setting' = setting) =>
          (shortcut' = shortcut /\ calls' = calls /\ _applied' = _applied)]_vars

(* C3's case: the UI-ready event arrived at a hooked KeyHooker with the    *)
(* setting disabled, and nothing has been applied.                         *)
C3_Witness == outcome = "not_applying" /\ ~_applied /\ calls = <<>>

(* C4: after _build_action_map a registered name is in the action map      *)
(* exactly when its label is not empty and the label's normal form is a    *)
(* key of the label table, and it is mapped to the table's object for it.  *)
C4_ActionMapIsTheJoin ==
    outcome = "returned" =>
        /\ DOMAIN _actions \subseteq DOMAIN labels
        /\ \A n \in DOMAIN labels :
              /\ n \in DOMAIN _actions <=>
                    (labels[n] # <<>> /\ NormalForm[labels[n]] \in DOMAIN label_to_action)
              /\ n \in DOMAIN _actions =>
                    _actions[n] = label_to_action[NormalForm[labels[n]]]

(* C4's case: label "~E~dit" resolved to the object with text "&Edit",     *)
(* while another registered name found no object and one had no label.     *)
C4_Witness ==
    /\ outcome = "returned"
    /\ "EditSegment" \in DOMAIN _actions
    /\ labels["EditSegment"] = EditLabel
    /\ qobjects[_actions["EditSegment"]].text = EditText
    /\ \E n \in DOMAIN labels : labels[n] = SaveLabel /\ n \notin DOMAIN _actions
    /\ \E n \in DOMAIN labels : labels[n] = <<>>

(* C5 as claimed: every "~x~" span, leftmost first, becomes "&x", whatever *)
(* x holds.                                                                *)
C5_AsClaimed ==
    (outcome = "returned" /\ text_in # None) => text_out = ExpectedByRank(text_in)

(* C5: the normalizer replaces each leftmost, non-overlapping, shortest    *)
(* "~x~" span that lies within one line (x holds no line feed) by "&x",    *)
(* keeps every other character in place, returns a string without tildes   *)
(* unchanged and returns the empty string for empty or None input.         *)
C5_SpansWithinALine ==
    outcome = "returned" =>
        /\ text_in # None => text_out = ExpectedByLine(text_in)
        /\ (text_in # None /\ TildesIn(text_in, 1, Len(text_in)) = 0) => text_out = text_in
        /\ text_in \in {None, <<>>} => text_out = <<>>

(* C5's case: a tilde cut off from the next one by a line feed stays, and  *)
(* the span after the line feed is replaced.                               *)
C5_Witness ==
    /\ outcome = "returned"
    /\ text_in = <<"~", NL, "~", "~">>
    /\ text_out = <<"~", NL, "&">>

(* C6: with no action object below the root the table is empty, the pass   *)
(* warns once about every policy entry, in order, calls no setShortcut,    *)
(* and returns normally, whichever collaborator call would raise.          *)
C6_EmptyTreeWarnsForAll ==
    (ActionsUnderRoot = {} /\ _applied) =>
        /\ label_to_action = EmptyTable
        /\ _actions = EmptyMap
        /\ calls = <<>>
        /\ warnings = PolicyNamesOf(_bindings)
        /\ outcome \in {"returned", "skipped"}

(* C6's case: an application whose only objects are not QActions below the *)
(* root, a registry with a label, and a finished pass.                     *)
C6_Witness ==
    /\ hasApp /\ Len(qobjects) > 0 /\ ActionsUnderRoot = {}
    /\ \E n \in DOMAIN labels : labels[n] = EditLabel
    /\ outcome = "returned"
    /\ Len(warnings) = Len(_bindings)

(* C7: no exception leaves apply(): when the registry's enumerate call,    *)
(* its get-label call or an object's setShortcut raises, apply() still     *)
(* returns normally.                                                       *)
C7_NoExceptionEscapes ==
    fault.kind \in {"get_registered_actions", "get_action_label", "setShortcut"} =>
        outcome # "raised"

C9_TableCoversTree ==
    outcome = "returned" =>
        /\ DOMAIN label_to_action = {qobjects[i].text : i \in ActionsUnderRoot}
        /\ {popped[k] : k \in 1 .. Len(popped)} \ {Root} = ActionsUnderRoot
        /\ \A t \in DOMAIN label_to_action : label_to_action[t] = LastPopped(t)

(* C9's case: three QActions share a text, one of them below another, and  *)
(* the one popped last is not the one created last.                        *)
C9_Witness ==
    /\ outcome = "returned"
    /\ ActionsUnderRoot = {1, 2, 3}
    /\ \A i \in 1 .. 3 : qobjects[i].text = EditText
    /\ label_to_action[EditText] = 2

(* C10 as claimed: every order of the policy entries leaves every object   *)
(* with the same shortcut, also when two names resolve to one object.      *)
C10_AsClaimed ==
    outcome = "returned" =>
        \A p \in Orders(Len(_bindings)) : ShortcutsAfter(Permuted(p)) = shortcut

(* C10: every order of the policy entries leaves every object with the     *)
(* same shortcut, provided no two policy names resolve to the same object. *)
C10_OrderIrrelevantWhenApart ==
    (outcome = "returned" /\ ResolveApart) =>
        \A p \in Orders(Len(_bindings)) : ShortcutsAfter(Permuted(p)) = shortcut

(* C10's case: two policy names resolved to two different objects, a third *)
(* to none, and both shortcuts were set.                                   *)
C10_Witness ==
    /\ outcome = "returned" /\ ResolveApart
    /\ Cardinality(PolicyNames \cap DOMAIN _actions) = 2
    /\ Len(calls) = 2 /\ Len(warnings) = 1

====
